---- MODULE Spec2Model ----
(***************************************************************************)
(* Model of the aggregation / cache / retry engine of the multi search    *)
(* engine: SearchManager (js/searchManager.js), SearchCache               *)
(* (js/searchCache.js) and ErrorHandler (js/errorHandler.js).             *)
(*                                                                         *)
(* JavaScript runs every handler to completion, so an action is one       *)
(* synchronous stretch of code between two awaits.  Date.now() is the      *)
(* variable now.  A JavaScript Map / object is a sequence of records in    *)
(* insertion order.                                                        *)
(***************************************************************************)
EXTENDS Integers, Sequences, FiniteSets, TLC

VARIABLES
    now,            \* Date.now()
    cache,          \* SearchCache.cache (Map, insertion order)
    maxSize,        \* SearchCache.maxSize
    retryAttempts,  \* ErrorHandler.retryAttempts (absent = 0)
    errorLog,       \* ErrorHandler.errorLog
    activeSearches, \* SearchManager.activeSearches (keys)
    searchHistory,  \* SearchManager.searchHistory
    raised,         \* the raw error last handed to handleEngineError
                    \* when the handler is driven directly
    call,           \* one record per searchAll invocation
    task            \* per call and engine: the promise chain of
                    \* searchEngineWithErrorHandling / retrySearch

vars == <<now, cache, maxSize, retryAttempts, errorLog,
          activeSearches, searchHistory, raised, call, task>>

cacheVars == <<cache, maxSize>>
managerVars == <<retryAttempts, errorLog, activeSearches, searchHistory,
                 raised, call, task>>

----------------------------------------------------------------------------
(* Bounds of the model *)

NumEngines == 2     \* how many of the registered adapters take part
MaxCalls == 2       \* searchAll invocations in one behaviour
MaxFailures == 4    \* failures the environment injects into the first adapter
MaxOtherFailures == 0   \* and into each of the other adapters
MaxOverlapFailures == 5 \* failures of the first adapter under overlapping calls
MaxResults == 1     \* items in one provider result
MaxCapacity == 2    \* capacities tried in the cache specification
MaxTime == 1        \* unit clock steps in the cache specification
MaxLog == 1         \* error-log records kept in the handler specification
MaxAttempts == 5    \* retry counter values in the handler specification
MaxMarked == 1      \* records in the log that differ from the common one
MaxSweeps == 2      \* firings of the cleanup timer in the sweep specification
MaxCleanupFailures == 1  \* error-log records in the cleanup specification

----------------------------------------------------------------------------
(* Program constants *)

defaultMaxSize == 100
defaultTTL == 300000
cleanupInterval == 60000
maxLogSize == 100
maxRetries == 3
maxHistorySize == 50
baseRetryDelay == 1000
maxRetryDelay == 10000

AdapterOrder == <<"google", "bing", "yahoo", "duckduckgo", "youtube", "baidu">>

Engines == {AdapterOrder[i] : i \in 1..NumEngines}

Languages == {"ja", "en"}

Null == [null |-> TRUE]

Calls == 1..MaxCalls

----------------------------------------------------------------------------
(* Strings: a query is a sequence of characters *)

Whitespace == {" "}

toLowerCaseChar(ch) == IF ch = "C" THEN "c" ELSE ch

toLowerCase(s) == [i \in 1..Len(s) |-> toLowerCaseChar(s[i])]

RECURSIVE trimStart(_)
trimStart(s) ==
    IF s # <<>> /\ Head(s) \in Whitespace THEN trimStart(Tail(s)) ELSE s

RECURSIVE trimEnd(_)
trimEnd(s) ==
    IF s # <<>> /\ s[Len(s)] \in Whitespace
    THEN trimEnd(SubSeq(s, 1, Len(s) - 1))
    ELSE s

trim(s) == trimEnd(trimStart(s))

Queries == {<<>>, <<" ">>, <<"c">>, <<" ", "C">>}

\* the (query, language) pairs searchAll is called with
CallInputs == {<< <<>>, "ja" >>, << <<" ">>, "ja" >>, << <<"c">>, "ja" >>}

\* searchAll line 34: the error thrown for an empty query
EmptyQueryError == [name |-> "Error", message |-> <<"empty query">>, status |-> 0]

\* a variant that forgets the trim: a whitespace-only query passes
IsEmptyQuery_noTrim(q) == q = <<>>

\* searchAll line 33: !query || query.trim() === ''
IsEmptyQuery(q) == q = <<>> \/ trim(q) = <<>>

\* a variant that keys the query as it was typed
generateCacheKey_raw(engine, query, language) ==
    <<engine, language, query>>

generateCacheKey(engine, query, language) ==
    <<engine, language, trim(toLowerCase(query))>>

----------------------------------------------------------------------------
(* SearchCache *)

RECURSIVE IndexOfKey(_, _, _)
IndexOfKey(m, k, i) ==
    IF i > Len(m) THEN 0
    ELSE IF m[i].key = k THEN i
    ELSE IndexOfKey(m, k, i + 1)

MapHas(m, k) == IndexOfKey(m, k, 1) # 0

MapGet(m, k) == m[IndexOfKey(m, k, 1)]

\* Map.prototype.set: an existing key keeps its position
MapSet(m, entry) ==
    LET i == IndexOfKey(m, entry.key, 1)
    IN  IF i = 0 THEN Append(m, entry) ELSE [m EXCEPT ![i] = entry]

MapDelete(m, k) ==
    LET i == IndexOfKey(m, k, 1)
    IN  IF i = 0 THEN m
        ELSE SubSeq(m, 1, i - 1) \o SubSeq(m, i + 1, Len(m))

MapKeys(m) == {m[i].key : i \in 1..Len(m)}

\* the loop of evictLRU: the first entry, in iteration order, whose
\* lastAccessed is strictly below everything seen so far, starting from now
RECURSIVE evictScan(_, _, _, _)
evictScan(m, i, oldestTime, oldestIdx) ==
    IF i > Len(m) THEN oldestIdx
    ELSE IF m[i].lastAccessed < oldestTime
         THEN evictScan(m, i + 1, m[i].lastAccessed, i)
         ELSE evictScan(m, i + 1, oldestTime, oldestIdx)

evictLRU(m, t) ==
    LET i == evictScan(m, 1, t, 0)
    IN  IF i = 0 THEN m ELSE MapDelete(m, m[i].key)

\* getStats().totalEntries
totalEntries(m) == Len(m)

\* a variant of get that returns the value without recording the access
cacheGet_noTouch(m, k, t) ==
    IF ~MapHas(m, k) THEN [cache |-> m, value |-> Null]
    ELSE LET entry == MapGet(m, k)
         IN  IF t > entry.expiresAt
             THEN [cache |-> MapDelete(m, k), value |-> Null]
             ELSE [cache |-> m, value |-> entry.data]

\* a variant of get that reports the miss but keeps the expired entry
cacheGet_keepExpired(m, k, t) ==
    IF ~MapHas(m, k) THEN [cache |-> m, value |-> Null]
    ELSE LET entry == MapGet(m, k)
         IN  IF t > entry.expiresAt
             THEN [cache |-> m, value |-> Null]
             ELSE [cache |-> MapSet(m, [entry EXCEPT !.lastAccessed = t]),
                   value |-> entry.data]

\* SearchCache.get: the new map and the returned value
cacheGet(m, k, t) ==
    IF ~MapHas(m, k) THEN [cache |-> m, value |-> Null]
    ELSE LET entry == MapGet(m, k)
         IN  IF t > entry.expiresAt
             THEN [cache |-> MapDelete(m, k), value |-> Null]
             ELSE [cache |-> MapSet(m, [entry EXCEPT !.lastAccessed = t]),
                   value |-> entry.data]

\* SearchCache.set; ttl = 0 stands for the absent / null argument
cacheSet(m, k, data, ttl, t, cap) ==
    LET entry == [key |-> k, data |-> data, createdAt |-> t,
                  lastAccessed |-> t,
                  expiresAt |-> t + (IF ttl # 0 THEN ttl ELSE defaultTTL)]
        m1 == IF Len(m) >= cap THEN evictLRU(m, t) ELSE m
    IN  MapSet(m1, entry)

----------------------------------------------------------------------------
(* ErrorHandler *)

\* A raw error: its name, its message as a sequence of phrases, and its
\* status property (0 = no status property)
includes(message, phrase) == \E i \in 1..Len(message) : message[i] = phrase

AbortError == [name |-> "AbortError", message |-> <<"aborted">>, status |-> 0]
TimeoutMessageError == [name |-> "Error", message |-> <<"timeout">>, status |-> 0]
TypeErrorError == [name |-> "TypeError", message |-> <<"x is undefined">>, status |-> 0]
CorsMessageError == [name |-> "Error", message |-> <<"CORS">>, status |-> 0]
FailedToFetchError == [name |-> "Error", message |-> <<"Failed to fetch">>, status |-> 0]
StatusError == [name |-> "Error", message |-> <<"Service Unavailable">>, status |-> 503]
HttpError == [name |-> "Error", message |-> <<"HTTP 500">>, status |-> 0]

\* searchEngineWithErrorHandling lines 112 and 117
RateLimitError == [name |-> "Error", message |-> <<"rate limit reached">>, status |-> 0]
UnavailableError == [name |-> "Error", message |-> <<"engine unavailable">>, status |-> 0]

\* the errors a provider's search raises in the manager specification
ProviderErrors == {AbortError, HttpError}

classify(error) ==
    IF error.name = "AbortError" \/ includes(error.message, "timeout")
    THEN "timeout"
    ELSE IF includes(error.message, "CORS") \/ error.name = "TypeError"
    THEN "cors"
    ELSE IF includes(error.message, "Failed to fetch")
            \/ includes(error.message, "Network")
    THEN "network"
    ELSE IF error.status # 0
    THEN "api"
    ELSE "general"

getEngineDisplayName(engine) ==
    CASE engine = "google" -> "Google"
      [] engine = "bing" -> "Bing"
      [] engine = "yahoo" -> "Yahoo Japan"
      [] engine = "duckduckgo" -> "DuckDuckGo"
      [] engine = "youtube" -> "YouTube"
      [] engine = "baidu" -> "Baidu"
      [] OTHER -> engine

\* A user message: the display name it starts with, the sentence that
\* follows, and the status code where the sentence depends on one
getNetworkErrorMessage(error, engine) ==
    [engineName |-> getEngineDisplayName(engine),
     text |-> IF includes(error.message, "Failed to fetch")
              THEN "could not connect"
              ELSE IF includes(error.message, "timeout")
              THEN "connection timed out"
              ELSE "network error",
     statusCode |-> 0]

\* the switch over the status code: one sentence per case, and the code
\* itself in the default sentence
getAPIErrorMessage(error, engine) ==
    [engineName |-> getEngineDisplayName(engine),
     text |-> "api error",
     statusCode |-> error.status]

\* the userMessage the handler of the given type writes
userMessageOf(type, error, engine) ==
    CASE type = "network" -> getNetworkErrorMessage(error, engine)
      [] type = "api" -> getAPIErrorMessage(error, engine)
      [] type = "timeout" ->
            [engineName |-> getEngineDisplayName(engine),
             text |-> "search timed out", statusCode |-> 0]
      [] type = "cors" ->
            [engineName |-> getEngineDisplayName(engine),
             text |-> "blocked by the browser", statusCode |-> 0]
      [] OTHER ->
            [engineName |-> getEngineDisplayName(engine),
             text |-> "unexpected error", statusCode |-> 0]

\* the type tags the handlers of ErrorHandler write
ErrorTypes == {"network", "api", "parsing", "cors", "timeout", "general"}

retryableErrors == {"network", "timeout", "api"}

\* a variant that retries whatever the kind of the error
shouldRetry_anyKind(attempts, engine, errorType) ==
    attempts[engine] < maxRetries

shouldRetry(attempts, engine, errorType) ==
    IF errorType \notin retryableErrors THEN FALSE
    ELSE attempts[engine] < maxRetries

\* a variant that reads the counter after the retry was recorded
getRetryDelay_afterRecord(attempts, engine) ==
    LET d == baseRetryDelay * (2 ^ (attempts[engine] + 1))
    IN  IF d < maxRetryDelay THEN d ELSE maxRetryDelay

getRetryDelay(attempts, engine) ==
    LET d == baseRetryDelay * (2 ^ attempts[engine])
    IN  IF d < maxRetryDelay THEN d ELSE maxRetryDelay

recordRetryAttempt(attempts, engine) ==
    [attempts EXCEPT ![engine] = @ + 1]

resetRetryAttempts(attempts, engine) ==
    [attempts EXCEPT ![engine] = 0]

\* a variant that refuses the new record when the log is full
logError_dropNewest(log, errorInfo) ==
    IF Len(log) >= maxLogSize THEN log ELSE Append(log, errorInfo)

logError(log, errorInfo) ==
    LET pushed == Append(log, errorInfo)
    IN  IF Len(pushed) > maxLogSize THEN Tail(pushed) ELSE pushed

\* handleEngineError: the record it returns.  The record it logged is the
\* same object, so the log shows the retry decision too.
handleEngineError(error, engine, attempts) ==
    LET type == classify(error)
        retry == shouldRetry(attempts, engine, type)
    IN  [type |-> type, engine |-> engine, message |-> error.message,
         userMessage |-> userMessageOf(type, error, engine),
         shouldRetry |-> retry,
         retryDelay |-> IF retry THEN getRetryDelay(attempts, engine) ELSE 0]

----------------------------------------------------------------------------
(* SearchManager: one provider's promise chain *)

Gates == {"ok", "rateLimited", "unavailable"}

NoTask == [pc |-> "none", settled |-> Null, wakeAt |-> 0, invoked |-> 0,
           probes |-> 0, delays |-> <<>>, notes |-> <<>>]

\* a variant of the catch block that logs only the failure that settles
\* the provider
catchError_quietRetry(S, engine, error, t) ==
    LET errorInfo == handleEngineError(error, engine, S.retryAttempts)
        logged == logError(S.errorLog, errorInfo)
        shown == Append(S.tk[engine].notes,
                        [kind |-> "error", errorInfo |-> errorInfo])
    IN  IF errorInfo.shouldRetry
        THEN [S EXCEPT
                !.retryAttempts = recordRetryAttempt(@, engine),
                !.tk[engine] = [@ EXCEPT
                    !.pc = "delay",
                    !.wakeAt = t + errorInfo.retryDelay,
                    !.delays = Append(@, errorInfo.retryDelay),
                    !.notes = shown]]
        ELSE [S EXCEPT
                !.errorLog = logged,
                !.tk[engine] = [@ EXCEPT
                    !.pc = "settled",
                    !.settled = [engine |-> engine, status |-> "rejected",
                                 reason |-> errorInfo],
                    !.notes = shown]]

\* a variant of the catch block that leaves the promise of a provider
\* whose retries are used up pending
catchError_neverSettles(S, engine, error, t) ==
    LET errorInfo == handleEngineError(error, engine, S.retryAttempts)
        logged == logError(S.errorLog, errorInfo)
        shown == Append(S.tk[engine].notes,
                        [kind |-> "error", errorInfo |-> errorInfo])
    IN  IF errorInfo.shouldRetry
        THEN [S EXCEPT
                !.errorLog = logged,
                !.retryAttempts = recordRetryAttempt(@, engine),
                !.tk[engine] = [@ EXCEPT
                    !.pc = "delay",
                    !.wakeAt = t + errorInfo.retryDelay,
                    !.delays = Append(@, errorInfo.retryDelay),
                    !.notes = shown]]
        ELSE [S EXCEPT
                !.errorLog = logged,
                !.tk[engine] = [@ EXCEPT
                    !.pc = "pending",
                    !.notes = shown]]

\* a variant of the catch block that also drops what the cache holds for
\* the engine that failed
catchError_purge(S, engine, error, t) ==
    LET errorInfo == handleEngineError(error, engine, S.retryAttempts)
        logged == logError(S.errorLog, errorInfo)
        shown == Append(S.tk[engine].notes,
                        [kind |-> "error", errorInfo |-> errorInfo])
        purged == SelectSeq(S.cache, LAMBDA entry : entry.key[1] # engine)
    IN  IF errorInfo.shouldRetry
        THEN [S EXCEPT
                !.cache = purged,
                !.errorLog = logged,
                !.retryAttempts = recordRetryAttempt(@, engine),
                !.tk[engine] = [@ EXCEPT
                    !.pc = "delay",
                    !.wakeAt = t + errorInfo.retryDelay,
                    !.delays = Append(@, errorInfo.retryDelay),
                    !.notes = shown]]
        ELSE [S EXCEPT
                !.cache = purged,
                !.errorLog = logged,
                !.tk[engine] = [@ EXCEPT
                    !.pc = "settled",
                    !.settled = [engine |-> engine, status |-> "rejected",
                                 reason |-> errorInfo],
                    !.notes = shown]]

\* the catch block of searchEngineWithErrorHandling, with retrySearch up to
\* its await.  S carries the cache, the error log, the retry counters and
\* the tasks (tk) of the call.
catchError(S, engine, error, t) ==
    LET errorInfo == handleEngineError(error, engine, S.retryAttempts)
        logged == logError(S.errorLog, errorInfo)
        shown == Append(S.tk[engine].notes,
                        [kind |-> "error", errorInfo |-> errorInfo])
    IN  IF errorInfo.shouldRetry
        THEN [S EXCEPT
                !.errorLog = logged,
                !.retryAttempts = recordRetryAttempt(@, engine),
                !.tk[engine] = [@ EXCEPT
                    !.pc = "delay",
                    !.wakeAt = t + errorInfo.retryDelay,
                    !.delays = Append(@, errorInfo.retryDelay),
                    !.notes = shown]]
        ELSE [S EXCEPT
                !.errorLog = logged,
                !.tk[engine] = [@ EXCEPT
                    !.pc = "settled",
                    !.settled = [engine |-> engine, status |-> "rejected",
                                 reason |-> errorInfo],
                    !.notes = shown]]

\* a variant that asks the gates before it looks into the cache
startAttempt_gatesFirst(S, engine, query, language, gate, t) ==
    LET cacheKey == generateCacheKey(engine, query, language)
        got == cacheGet(S.cache, cacheKey, t)
        S1 == [S EXCEPT !.cache = got.cache]
    IN  IF gate = "rateLimited"
        THEN catchError([S EXCEPT !.tk[engine].probes = @ + 1],
                        engine, RateLimitError, t)
        ELSE IF gate = "unavailable"
        THEN catchError([S EXCEPT !.tk[engine].probes = @ + 2],
                        engine, UnavailableError, t)
        ELSE IF got.value # Null
        THEN [S1 EXCEPT !.tk[engine] = [@ EXCEPT
                !.pc = "settled",
                !.probes = @ + 2,
                !.settled = [engine |-> engine, status |-> "fulfilled",
                             value |-> got.value],
                !.notes = Append(@, [kind |-> "results",
                                     results |-> got.value])]]
        ELSE [S1 EXCEPT !.tk[engine] = [@ EXCEPT
                !.pc = "searching",
                !.probes = @ + 2,
                !.invoked = @ + 1]]

\* searchEngineWithErrorHandling from its entry to the await of
\* adapter.search (or to its return, when it does not get that far)
startAttempt(S, engine, query, language, gate, t) ==
    LET cacheKey == generateCacheKey(engine, query, language)
        got == cacheGet(S.cache, cacheKey, t)
        S1 == [S EXCEPT !.cache = got.cache]
    IN  IF got.value # Null
        THEN [S1 EXCEPT !.tk[engine] = [@ EXCEPT
                !.pc = "settled",
                !.settled = [engine |-> engine, status |-> "fulfilled",
                             value |-> got.value],
                !.notes = Append(@, [kind |-> "results",
                                     results |-> got.value])]]
        ELSE IF gate = "rateLimited"
        THEN catchError([S1 EXCEPT !.tk[engine].probes = @ + 1],
                        engine, RateLimitError, t)
        ELSE IF gate = "unavailable"
        THEN catchError([S1 EXCEPT !.tk[engine].probes = @ + 2],
                        engine, UnavailableError, t)
        ELSE [S1 EXCEPT !.tk[engine] = [@ EXCEPT
                !.pc = "searching",
                !.probes = @ + 2,
                !.invoked = @ + 1]]

\* a variant that leaves an entry alone that is already in the cache
searchResolved_keepFirst(S, engine, query, language, result, t, cap) ==
    LET cacheKey == generateCacheKey(engine, query, language)
    IN  [S EXCEPT
            !.cache = IF MapHas(@, cacheKey) THEN @
                      ELSE cacheSet(@, cacheKey, result, 0, t, cap),
            !.retryAttempts = resetRetryAttempts(@, engine),
            !.tk[engine] = [@ EXCEPT
                !.pc = "settled",
                !.settled = [engine |-> engine, status |-> "fulfilled",
                             value |-> result],
                !.notes = Append(@, [kind |-> "results",
                                     results |-> result])]]

\* the continuation after adapter.search resolved with result
searchResolved(S, engine, query, language, result, t, cap) ==
    LET cacheKey == generateCacheKey(engine, query, language)
    IN  [S EXCEPT
            !.cache = cacheSet(@, cacheKey, result, 0, t, cap),
            !.retryAttempts = resetRetryAttempts(@, engine),
            !.tk[engine] = [@ EXCEPT
                !.pc = "settled",
                !.settled = [engine |-> engine, status |-> "fulfilled",
                             value |-> result],
                !.notes = Append(@, [kind |-> "results",
                                     results |-> result])]]

\* a variant that starts the first engine only
RECURSIVE startAll_firstOnly(_, _, _, _, _, _)
startAll_firstOnly(S, i, query, language, gates, t) ==
    IF i > 1 THEN S
    ELSE startAll_firstOnly(startAttempt(S, AdapterOrder[i], query, language,
                                         gates[AdapterOrder[i]], t),
                            i + 1, query, language, gates, t)

\* Object.keys(this.adapters).map(...): every engine in registration order
RECURSIVE startAll(_, _, _, _, _, _)
startAll(S, i, query, language, gates, t) ==
    IF i > NumEngines THEN S
    ELSE startAll(startAttempt(S, AdapterOrder[i], query, language,
                               gates[AdapterOrder[i]], t),
                  i + 1, query, language, gates, t)

----------------------------------------------------------------------------
(* SearchManager: the aggregated result *)

Undefined == [undefined |-> TRUE]

Field(r, f) == IF f \in DOMAIN r THEN r[f] ELSE Undefined

Truthy(v) == v # Undefined /\ v # Null

\* result.value.results ? result.value.results.length : 0
resultsLength(value) == IF "results" \in DOMAIN value THEN value.results ELSE 0

\* a variant that lists only the providers whose wrapper is fulfilled
processOne_skipFailed(processed, result) ==
    IF result.value.status = "rejected" THEN processed
    ELSE [processed EXCEPT
            !.engines = MapSet(@, [key |-> result.value.engine,
                                   status |-> "success",
                                   data |-> result.value,
                                   resultCount |-> 0, responseTime |-> 0]),
            !.summary.successful = @ + 1]

\* a variant that counts a provider as successful only when its wrapper is
\* fulfilled, and as nothing otherwise
processOne_miscount(processed, result) ==
    [processed EXCEPT
        !.engines = MapSet(@, [key |-> result.value.engine,
                               status |-> "success", data |-> result.value,
                               resultCount |-> 0, responseTime |-> 0]),
        !.summary.successful =
            IF result.value.status = "fulfilled" THEN @ + 1 ELSE @]

\* the body of results.forEach in processSearchResults
processOne(processed, result) ==
    LET engine == IF Truthy(Field(result, "engine")) THEN result.engine
                  ELSE IF Truthy(Field(result, "value"))
                          /\ "engine" \in DOMAIN result.value
                       THEN result.value.engine
                       ELSE "undefined"   \* the property name of undefined
    IN  IF result.status = "fulfilled" /\ Truthy(Field(result, "value"))
        THEN [processed EXCEPT
                !.engines = MapSet(@, [key |-> engine, status |-> "success",
                                       data |-> result.value,
                                       resultCount |-> resultsLength(result.value),
                                       responseTime |-> 0]),
                !.summary.successful = @ + 1,
                !.summary.totalResults = @ + resultsLength(result.value)]
        ELSE [processed EXCEPT
                !.engines = MapSet(@, [key |-> engine, status |-> "error",
                                       error |-> IF Truthy(Field(result, "reason"))
                                                 THEN result.reason
                                                 ELSE Field(result, "error"),
                                       resultCount |-> 0,
                                       responseTime |-> 0]),
                !.summary.failed = @ + 1]

RECURSIVE processEach(_, _, _)
processEach(processed, results, i) ==
    IF i > Len(results) THEN processed
    ELSE processEach(processOne(processed, results[i]), results, i + 1)

processSearchResults(results, query, language) ==
    processEach([query |-> query, language |-> language, engines |-> <<>>,
                 summary |-> [total |-> Len(results), successful |-> 0,
                              failed |-> 0, totalResults |-> 0]],
                results, 1)

\* a variant that hands the outcomes back last promise first
allSettled_reversed(tk) ==
    [i \in 1..NumEngines |->
        [status |-> "fulfilled",
         value |-> tk[AdapterOrder[NumEngines + 1 - i]].settled]]

\* what Promise.allSettled hands back for the promises of one call: a
\* promise of searchEngineWithErrorHandling is fulfilled with what the
\* function returned
allSettled(tk) ==
    [i \in 1..NumEngines |->
        [status |-> "fulfilled", value |-> tk[AdapterOrder[i]].settled]]

\* a variant that pushes the entry at the end of the history
addToHistory_push(history, query, language, results) ==
    LET entry == [query |-> query, language |-> language,
                  successfulEngines |->
                      Cardinality({i \in 1..Len(results.engines) :
                                     results.engines[i].status = "success"}),
                  totalResults |-> results.summary.totalResults]
        pushed == Append(history, entry)
    IN  IF Len(pushed) > maxHistorySize
        THEN SubSeq(pushed, 1, maxHistorySize)
        ELSE pushed

addToHistory(history, query, language, results) ==
    LET entry == [query |-> query, language |-> language,
                  successfulEngines |->
                      Cardinality({i \in 1..Len(results.engines) :
                                     results.engines[i].status = "success"}),
                  totalResults |-> results.summary.totalResults]
        unshifted == <<entry>> \o history
    IN  IF Len(unshifted) > maxHistorySize
        THEN SubSeq(unshifted, 1, maxHistorySize)
        ELSE unshifted

----------------------------------------------------------------------------
(* State after construction *)

NoCall == [pc |-> "idle", query |-> <<>>, language |-> "ja",
           result |-> Null, error |-> Null]

Init ==
    /\ now = 0
    /\ cache = <<>>
    /\ maxSize = defaultMaxSize
    /\ retryAttempts = [e \in Engines |-> 0]
    /\ errorLog = <<>>
    /\ activeSearches = {}
    /\ searchHistory = <<>>
    /\ raised = Null
    /\ call = [c \in Calls |-> NoCall]
    /\ task = [c \in Calls |-> [e \in Engines |-> NoTask]]

\* the environment's failure budget: the failures of engine in the log
FailuresOf(log, engine) ==
    Cardinality({i \in 1..Len(log) : log[i].engine = engine})

WithinBudget(log) ==
    \A i \in 1..NumEngines :
        FailuresOf(log, AdapterOrder[i])
            <= (IF i = 1 THEN MaxFailures ELSE MaxOtherFailures)

\* the shared state one provider step works on, for call c
Shared(c) == [cache |-> cache, errorLog |-> errorLog,
              retryAttempts |-> retryAttempts, tk |-> task[c]]

\* a variant that resolves with the first promise that settles
allSettledResolved_any(tk) == \E e \in Engines : tk[e].pc = "settled"

\* Promise.allSettled resolves once every promise of the call has settled
allSettledResolved(tk) == \A e \in Engines : tk[e].pc = "settled"

\* a variant that lets a provider's failure reject the await (Promise.all
\* over promises that reject on failure)
awaitPromises_failFast(tk) ==
    IF \E i \in 1..NumEngines : tk[AdapterOrder[i]].settled.status = "rejected"
    THEN [threw |-> TRUE,
          error |-> tk[AdapterOrder[
                        CHOOSE i \in 1..NumEngines :
                            tk[AdapterOrder[i]].settled.status = "rejected"
                    ]].settled.reason,
          results |-> <<>>]
    ELSE [threw |-> FALSE, error |-> Null, results |-> allSettled(tk)]

\* await Promise.allSettled(searchPromises): it never rejects
awaitPromises(tk) == [threw |-> FALSE, error |-> Null, results |-> allSettled(tk)]

\* searchAll after await Promise.allSettled, lines 64 to 83
finishSearchAll(c, tk, query, language) ==
    LET awaited == awaitPromises(tk)
        processedResults ==
            processSearchResults(awaited.results, query, language)
    IN  IF awaited.threw
        THEN /\ call' = [call EXCEPT ![c] = [@ EXCEPT
                             !.pc = "thrown", !.query = query,
                             !.language = language,
                             !.error = awaited.error]]
             /\ activeSearches' = activeSearches \ {c}
             /\ UNCHANGED searchHistory
        ELSE /\ call' = [call EXCEPT ![c] = [@ EXCEPT
                             !.pc = "returned", !.query = query,
                             !.language = language,
                             !.result = processedResults]]
             /\ searchHistory' = addToHistory(searchHistory, query, language,
                                              processedResults)
             /\ activeSearches' = activeSearches \ {c}

\* The state after one provider step of call c.  Promise.allSettled
\* resolves in the microtask that follows the settling of the last promise,
\* so searchAll's continuation belongs to the step that settles it.
Commit(c, S, query, language) ==
    /\ cache' = S.cache
    /\ errorLog' = S.errorLog
    /\ retryAttempts' = S.retryAttempts
    /\ task' = [task EXCEPT ![c] = S.tk]
    /\ IF allSettledResolved(S.tk)
       THEN finishSearchAll(c, S.tk, query, language)
       ELSE /\ call' = [call EXCEPT ![c] = [@ EXCEPT
                            !.pc = "running", !.query = query,
                            !.language = language]]
            /\ activeSearches' = IF call[c].pc = "idle"
                                 THEN activeSearches \cup {c}
                                 ELSE activeSearches
            /\ UNCHANGED searchHistory

----------------------------------------------------------------------------
(* Actions of the manager *)

\* searchAll from its entry to await Promise.allSettled: the query check,
\* the active-search record, and the first attempt of every engine
SearchAll(c, query, language, gates) ==
    /\ call[c].pc = "idle"
    /\ \A d \in Calls : d < c => call[d].pc # "idle"
    /\ IF IsEmptyQuery(query)
       THEN /\ call' = [call EXCEPT ![c] = [@ EXCEPT
                            !.pc = "thrown", !.query = query,
                            !.language = language,
                            !.error = EmptyQueryError]]
            /\ UNCHANGED <<now, cacheVars, retryAttempts, errorLog,
                           activeSearches, searchHistory, raised, task>>
       ELSE /\ Commit(c, startAll(Shared(c), 1, query, language, gates, now),
                      query, language)
            /\ UNCHANGED <<now, maxSize, raised>>

\* a variant in which a result is taken up only when no provider of the
\* call is waiting for a retry
SearchResolves_afterDelays(c, engine, n) ==
    /\ task[c][engine].pc = "searching"
    /\ \A f \in Engines : task[c][f].pc # "delay"
    /\ LET result == [engine |-> engine, query |-> call[c].query,
                      language |-> call[c].language, results |-> n]
       IN  Commit(c, searchResolved(Shared(c), engine, call[c].query,
                                    call[c].language, result, now, maxSize),
                  call[c].query, call[c].language)
    /\ UNCHANGED <<now, maxSize, raised>>

\* adapter.search of engine resolves with a result of n items
SearchResolves(c, engine, n) ==
    /\ task[c][engine].pc = "searching"
    /\ LET result == [engine |-> engine, query |-> call[c].query,
                      language |-> call[c].language, results |-> n]
       IN  Commit(c, searchResolved(Shared(c), engine, call[c].query,
                                    call[c].language, result, now, maxSize),
                  call[c].query, call[c].language)
    /\ UNCHANGED <<now, maxSize, raised>>

\* adapter.search of engine rejects with error
SearchRejects(c, engine, error) ==
    /\ task[c][engine].pc = "searching"
    /\ Commit(c, catchError(Shared(c), engine, error, now),
              call[c].query, call[c].language)
    /\ UNCHANGED <<now, maxSize, raised>>

\* the timer of retrySearch fires, at its deadline or later and never
\* before a timer with an earlier deadline: the retry attempt starts
RetryFires(c, engine, gate) ==
    /\ task[c][engine].pc = "delay"
    /\ \A d \in Calls, f \in Engines :
          task[d][f].pc = "delay" => task[d][f].wakeAt >= task[c][engine].wakeAt
    /\ LET t == IF now < task[c][engine].wakeAt
                THEN task[c][engine].wakeAt ELSE now
       IN  /\ now' = t
           /\ Commit(c, startAttempt(Shared(c), engine, call[c].query,
                                     call[c].language, gate, t),
                     call[c].query, call[c].language)
    /\ UNCHANGED <<maxSize, raised>>

\* time passes: by unit steps (at most MaxTime of them) or, once, by more
\* than a TTL.  A search is over within its timeout and a backoff within
\* maxRetryDelay, so no call is in flight across a TTL; and while nothing is
\* cached a TTL changes nothing.
Tick(d) ==
    /\ IF d < baseRetryDelay
       THEN (now % baseRetryDelay) + d <= MaxTime
       ELSE /\ now < defaultTTL
            /\ cache # <<>>
            /\ \A c \in Calls : call[c].pc # "running"
    /\ now' = now + d
    /\ UNCHANGED <<cacheVars, managerVars>>

Next ==
    \/ \E c \in Calls, input \in CallInputs, gates \in [Engines -> Gates] :
          SearchAll(c, input[1], input[2], gates) /\ WithinBudget(errorLog')
    \/ \E c \in Calls, e \in Engines, n \in 1..MaxResults :
          SearchResolves(c, e, n)
    \/ \E c \in Calls, e \in Engines, error \in ProviderErrors :
          SearchRejects(c, e, error) /\ WithinBudget(errorLog')
    \/ \E c \in Calls, e \in Engines, gate \in Gates :
          RetryFires(c, e, gate) /\ WithinBudget(errorLog')
    \/ Tick(defaultTTL + 1)

Spec == Init /\ [][Next]_vars

\* Overlapping calls that search in different languages, every adapter
\* being available and within its rate limit
OverlapInputs == {<< <<"c">>, "ja" >>, << <<"c">>, "en" >>}

\* only the first adapter fails, at most MaxOverlapFailures times
OverlapBudget(log) ==
    /\ Len(log) <= MaxOverlapFailures
    /\ \A i \in 1..Len(log) : log[i].engine = AdapterOrder[1]

OverlapNext ==
    \/ \E c \in Calls, input \in OverlapInputs :
          SearchAll(c, input[1], input[2], [e \in Engines |-> "ok"])
    \/ \E c \in Calls, e \in Engines, n \in 1..MaxResults :
          SearchResolves(c, e, n)
    \/ \E c \in Calls, e \in Engines, error \in ProviderErrors :
          SearchRejects(c, e, error) /\ OverlapBudget(errorLog')
    \/ \E c \in Calls, e \in Engines : RetryFires(c, e, "ok")

OverlapSpec == Init /\ [][OverlapNext]_vars

\* Calls whose queries differ in letter case and surrounding whitespace,
\* in two languages; every search succeeds
KeyInputs == {<< <<"c">>, "ja" >>, << <<" ", "C">>, "ja" >>,
              << <<"c">>, "en" >>, << <<" ", "C">>, "en" >>}

KeyNext ==
    \/ \E c \in Calls, input \in KeyInputs :
          SearchAll(c, input[1], input[2], [e \in Engines |-> "ok"])
    \/ \E c \in Calls, e \in Engines, n \in 1..MaxResults :
          SearchResolves(c, e, n)
    \/ Tick(defaultTTL + 1)

KeySpec == Init /\ [][KeyNext]_vars

----------------------------------------------------------------------------
(* ErrorHandler used directly *)

\* raw errors: every combination of a name, a message and a status
RawNames == {"AbortError", "TypeError", "SyntaxError", "Error"}

RawMessages == {<<"Unexpected token">>, <<"timeout">>, <<"CORS">>,
                <<"Failed to fetch">>, <<"Network">>}

RawStatuses == {0, 503}

RawErrors == [name : RawNames, message : RawMessages, status : RawStatuses]

HandleEngineError(error, engine) ==
    /\ Len(errorLog) < MaxLog
    /\ raised' = error
    /\ errorLog' = logError(errorLog,
                            handleEngineError(error, engine, retryAttempts))
    /\ UNCHANGED <<now, cacheVars, retryAttempts, activeSearches,
                   searchHistory, call, task>>

RecordRetryAttempt(engine) ==
    /\ retryAttempts[engine] < MaxAttempts
    /\ retryAttempts' = recordRetryAttempt(retryAttempts, engine)
    /\ UNCHANGED <<now, cacheVars, errorLog, activeSearches, searchHistory,
                   raised, call, task>>

ResetRetryAttempts(engine) ==
    /\ retryAttempts' = resetRetryAttempts(retryAttempts, engine)
    /\ UNCHANGED <<now, cacheVars, errorLog, activeSearches, searchHistory,
                   raised, call, task>>

ClearErrorLog ==
    /\ errorLog' = <<>>
    /\ retryAttempts' = [e \in Engines |-> 0]
    /\ UNCHANGED <<now, cacheVars, activeSearches, searchHistory,
                   raised, call, task>>

ErrorNext ==
    \/ \E error \in RawErrors, e \in Engines : HandleEngineError(error, e)
    \/ \E e \in Engines : RecordRetryAttempt(e)
    \/ \E e \in Engines : ResetRetryAttempts(e)
    \/ ClearErrorLog

ErrorSpec == Init /\ [][ErrorNext]_vars

\* The handler fed with the errors the adapters raise, for the retry
\* counter and the backoff
BackoffNext ==
    \/ \E error \in ProviderErrors, e \in Engines :
          HandleEngineError(error, e)
    \/ \E e \in Engines : RecordRetryAttempt(e)
    \/ \E e \in Engines : ResetRetryAttempts(e)
    \/ ClearErrorLog

BackoffSpec == Init /\ [][BackoffNext]_vars

\* The error log on its own: records are logged one after the other until
\* the log is full and beyond.  The records are those of the first adapter;
\* all but at most MaxMarked of the records in the log are the record of a
\* timeout.
LogRecords ==
    {handleEngineError(error, AdapterOrder[1], [e \in Engines |-> 0]) :
        error \in ProviderErrors}

CommonRecord ==
    handleEngineError(AbortError, AdapterOrder[1], [e \in Engines |-> 0])

LogBudget(log) ==
    Cardinality({i \in 1..Len(log) : log[i] # CommonRecord}) <= MaxMarked

LogError(errorInfo) ==
    /\ errorLog' = logError(errorLog, errorInfo)
    /\ UNCHANGED <<now, cacheVars, retryAttempts, activeSearches,
                   searchHistory, raised, call, task>>

LogNext ==
    \/ \E errorInfo \in LogRecords :
          LogError(errorInfo) /\ LogBudget(errorLog')
    \/ ClearErrorLog

LogSpec == Init /\ [][LogNext]_vars

----------------------------------------------------------------------------
(* SearchCache used directly *)

CacheKeys == {generateCacheKey("google", <<"c">>, "ja"),
              generateCacheKey("bing", <<"c">>, "ja"),
              generateCacheKey("google", <<"c">>, "en")}

\* the ttl arguments of set: absent (0), and overrides
TTLs == {0, 1, -1}

payloadOf(k, n) == [engine |-> k[1], query |-> k[3], language |-> k[2],
                    results |-> n]

\* the snapshots handed to import: one or two entries, created at 0,
\* expiring at 0 or after the default TTL
SnapshotEntries ==
    {[key |-> k, data |-> payloadOf(k, 1), createdAt |-> 0, expiresAt |-> x] :
        k \in CacheKeys, x \in {0, defaultTTL}}

Snapshots ==
    {<<a>> : a \in SnapshotEntries}
        \cup {<<a, b>> : a \in {x \in SnapshotEntries : x.key[1] = "google"},
                         b \in {x \in SnapshotEntries : x.key[1] = "bing"}}

cacheHas(m, k, t) ==
    IF ~MapHas(m, k) THEN [cache |-> m, value |-> FALSE]
    ELSE IF t > MapGet(m, k).expiresAt
         THEN [cache |-> MapDelete(m, k), value |-> FALSE]
         ELSE [cache |-> m, value |-> TRUE]

\* a variant of cleanup that stops after the first entry it removed
cleanup_firstOnly(m, t) ==
    IF \E i \in 1..Len(m) : t > m[i].expiresAt
    THEN MapDelete(m, m[CHOOSE i \in 1..Len(m) :
                            /\ t > m[i].expiresAt
                            /\ \A j \in 1..(i - 1) : ~(t > m[j].expiresAt)].key)
    ELSE m

cleanup(m, t) == SelectSeq(m, LAMBDA entry : ~(t > entry.expiresAt))

\* a variant of getStats that marks every entry it inspects as accessed
getStats_touch(m, t, cap) ==
    [cache |-> [i \in 1..Len(m) |-> [m[i] EXCEPT !.lastAccessed = t]],
     value |-> [totalEntries |-> totalEntries(m),
                validEntries |->
                    Cardinality({i \in 1..Len(m) : ~(t > m[i].expiresAt)}),
                expiredEntries |->
                    Cardinality({i \in 1..Len(m) : t > m[i].expiresAt}),
                maxSize |-> cap]]

\* SearchCache.getStats: the map it leaves and the counts it returns (the
\* byte sizes are left out)
getStats(m, t, cap) ==
    [cache |-> m,
     value |-> [totalEntries |-> totalEntries(m),
                validEntries |->
                    Cardinality({i \in 1..Len(m) : ~(t > m[i].expiresAt)}),
                expiredEntries |->
                    Cardinality({i \in 1..Len(m) : t > m[i].expiresAt}),
                maxSize |-> cap]]

clearEngine(m, engine) == SelectSeq(m, LAMBDA entry : entry.key[1] # engine)

clearLanguage(m, language) ==
    SelectSeq(m, LAMBDA entry : entry.key[2] # language)

\* what export pushes for one entry
exported(entry) == [key |-> entry.key, data |-> entry.data,
                    createdAt |-> entry.createdAt,
                    expiresAt |-> entry.expiresAt]

\* a variant of export that takes every entry, expired or not
export_all(m, t) == [i \in 1..Len(m) |-> exported(m[i])]

\* SearchCache.export: the entries of the snapshot
export(m, t) ==
    LET valid == SelectSeq(m, LAMBDA entry : t <= entry.expiresAt)
    IN  [i \in 1..Len(valid) |-> exported(valid[i])]

\* the body of exportData.entries.forEach in import
importOne(m, entryData, t) ==
    IF t <= entryData.expiresAt
    THEN MapSet(m, [key |-> entryData.key, data |-> entryData.data,
                    createdAt |-> entryData.createdAt, lastAccessed |-> t,
                    expiresAt |-> entryData.expiresAt])
    ELSE m

RECURSIVE importEach(_, _, _, _)
importEach(m, entries, i, t) ==
    IF i > Len(entries) THEN m
    ELSE importEach(importOne(m, entries[i], t), entries, i + 1, t)

CacheInit ==
    /\ now = 0
    /\ cache = <<>>
    /\ maxSize \in 1..MaxCapacity
    /\ retryAttempts = [e \in Engines |-> 0]
    /\ errorLog = <<>>
    /\ activeSearches = {}
    /\ searchHistory = <<>>
    /\ raised = Null
    /\ call = [c \in Calls |-> NoCall]
    /\ task = [c \in Calls |-> [e \in Engines |-> NoTask]]

Set(k, n, ttl) ==
    /\ cache' = cacheSet(cache, k, payloadOf(k, n), ttl, now, maxSize)
    /\ UNCHANGED <<now, maxSize, managerVars>>

Get(k) ==
    /\ cache' = cacheGet(cache, k, now).cache
    /\ UNCHANGED <<now, maxSize, managerVars>>

Has(k) ==
    /\ cache' = cacheHas(cache, k, now).cache
    /\ UNCHANGED <<now, maxSize, managerVars>>

Delete(k) ==
    /\ cache' = MapDelete(cache, k)
    /\ UNCHANGED <<now, maxSize, managerVars>>

Clear ==
    /\ cache' = <<>>
    /\ UNCHANGED <<now, maxSize, managerVars>>

Cleanup ==
    /\ cache' = cleanup(cache, now)
    /\ UNCHANGED <<now, maxSize, managerVars>>

ClearEngine(engine) ==
    /\ cache' = clearEngine(cache, engine)
    /\ UNCHANGED <<now, maxSize, managerVars>>

ClearLanguage(language) ==
    /\ cache' = clearLanguage(cache, language)
    /\ UNCHANGED <<now, maxSize, managerVars>>

GetStats ==
    /\ cache' = getStats(cache, now, maxSize).cache
    /\ UNCHANGED <<now, maxSize, managerVars>>

\* export followed by import of the snapshot into the same cache
Reimport ==
    /\ cache' = importEach(cache, export(cache, now), 1, now)
    /\ UNCHANGED <<now, maxSize, managerVars>>

Import(snapshot) ==
    /\ cache' = importEach(cache, snapshot, 1, now)
    /\ UNCHANGED <<now, maxSize, managerVars>>

CacheNext ==
    \/ \E k \in CacheKeys, n \in 1..MaxResults, ttl \in TTLs : Set(k, n, ttl)
    \/ \E k \in CacheKeys : Get(k)
    \/ \E k \in CacheKeys : Has(k)
    \/ \E k \in CacheKeys : Delete(k)
    \/ Clear
    \/ Cleanup
    \/ GetStats
    \/ \E e \in Engines : ClearEngine(e)
    \/ \E l \in Languages : ClearLanguage(l)
    \/ \E snapshot \in Snapshots : Import(snapshot)
    \/ Reimport
    \/ \E d \in {1, defaultTTL} : Tick(d)

CacheSpec == CacheInit /\ [][CacheNext]_vars

\* The cache with its cleanup timer.  The constructor starts the interval
\* timer at time 0, so that the callback is due at every multiple of
\* cleanupInterval; the clock does not pass a due time before the callback
\* has run.
nextSweep(t) == ((t \div cleanupInterval) + 1) * cleanupInterval

\* the callback of startCleanupTimer fires
SweepFires ==
    /\ nextSweep(now) <= MaxSweeps * cleanupInterval
    /\ now' = nextSweep(now)
    /\ cache' = cleanup(cache, nextSweep(now))
    /\ UNCHANGED <<maxSize, managerVars>>

\* a millisecond passes, short of the next due time
SweepTick ==
    /\ (now % cleanupInterval) + 1 <= MaxTime
    /\ now' = now + 1
    /\ UNCHANGED <<cacheVars, managerVars>>

SweepNext ==
    \/ \E k \in CacheKeys, n \in 1..MaxResults, ttl \in TTLs : Set(k, n, ttl)
    \/ \E k \in CacheKeys : Get(k)
    \/ SweepFires
    \/ SweepTick

SweepSpec == CacheInit /\ [][SweepNext]_vars

----------------------------------------------------------------------------
(* Properties *)

Returned(c) == call[c].pc = "returned"

Rejected(c, e) ==
    /\ task[c][e].pc = "settled"
    /\ task[c][e].settled.status = "rejected"

Fulfilled(c, e) ==
    /\ task[c][e].pc = "settled"
    /\ task[c][e].settled.status = "fulfilled"

SlotOf(c, e) == MapGet(call[c].result.engines, e)

SlotsWith(c, status) ==
    {i \in 1..Len(call[c].result.engines) :
        call[c].result.engines[i].status = status}

IsBlank(q) == \A i \in 1..Len(q) : q[i] \in Whitespace

NonDecreasing(seq) == \A i \in 1..(Len(seq) - 1) : seq[i] <= seq[i + 1]

\* C1: when a provider's retryable failures are exhausted and another
\* provider succeeds, the call returns with the failed provider's slot
\* 'error' carrying the last error record, the other slot 'success', and
\* the summary counting the failed and the succeeded providers.
C1_PartialFailure ==
    \A c \in Calls : Returned(c) =>
        \A a \in Engines, b \in Engines :
            ( /\ Rejected(c, a)
              /\ task[c][a].settled.reason.type \in retryableErrors
              /\ Fulfilled(c, b) )
            => /\ MapHas(call[c].result.engines, a)
               /\ MapHas(call[c].result.engines, b)
               /\ SlotOf(c, a).status = "error"
               /\ SlotOf(c, a).error = task[c][a].settled.reason
               /\ SlotOf(c, b).status = "success"
               /\ call[c].result.summary.failed
                    = Cardinality({e \in Engines : Rejected(c, e)})
               /\ call[c].result.summary.successful
                    = Cardinality({e \in Engines : Fulfilled(c, e)})

\* C2: a returned result has exactly one entry per registered provider and
\* summary.total is the number of registered providers.
C2_EveryProviderListed ==
    \A c \in Calls : Returned(c) =>
        /\ Len(call[c].result.engines) = NumEngines
        /\ MapKeys(call[c].result.engines) = Engines
        /\ call[c].result.summary.total = NumEngines

\* a call returned after one provider failed for good and another was
\* served (from the cache or by a search)
C2_Witness ==
    \E c \in Calls : Returned(c)
        /\ \E a \in Engines, b \in Engines : Rejected(c, a) /\ Fulfilled(c, b)

\* C3: in a returned result successful + failed = total, successful is the
\* number of 'success' slots and failed the number of 'error' slots.
C3_SummaryAddsUp ==
    \A c \in Calls : Returned(c) =>
        LET summary == call[c].result.summary
        IN  /\ summary.successful + summary.failed = summary.total
            /\ summary.successful = Cardinality(SlotsWith(c, "success"))
            /\ summary.failed = Cardinality(SlotsWith(c, "error"))

\* a call returned whose first adapter failed for good after retries
C3_Witness ==
    \E c \in Calls : Returned(c)
        /\ Rejected(c, AdapterOrder[1])
        /\ task[c][AdapterOrder[1]].delays # <<>>

\* C4: searchAll throws only for a blank query, and then the error of the
\* query check; whatever the providers raise, a call with a proper query
\* is never thrown.
C4_OnlyInvalidInputThrows ==
    \A c \in Calls : call[c].pc = "thrown" =>
        /\ IsBlank(call[c].query)
        /\ call[c].error = EmptyQueryError

\* a call with a proper query returned although a provider timed out on
\* every attempt, next to a call that was thrown
C4_Witness ==
    /\ \E c \in Calls : Returned(c) /\ ~IsBlank(call[c].query)
          /\ \E e \in Engines : Rejected(c, e)
                /\ task[c][e].settled.reason.type = "timeout"
    /\ \E c \in Calls : call[c].pc = "thrown"

\* C5: a call with a blank query is thrown at once and changes nothing: no
\* cache access, no provider call, no active-search record, no history
\* entry, no error-log record, no notification; and a call that got further
\* has a proper query.
C5_Step ==
    \A c \in Calls :
        /\ call'[c].pc \in {"running", "returned"} => ~IsBlank(call'[c].query)
        /\ (call[c].pc = "idle" /\ call'[c].pc = "thrown")
            => /\ IsBlank(call'[c].query)
               /\ call'[c].result = Null
               /\ UNCHANGED <<now, cache, maxSize, retryAttempts, errorLog,
                              activeSearches, searchHistory, raised, task>>

C5_EmptyQueryChangesNothing == [][C5_Step]_vars

\* a blank call was thrown while the cache and the error log held entries,
\* and none of its providers was touched
C5_Witness ==
    \E c \in Calls :
        /\ call[c].pc = "thrown"
        /\ cache # <<>>
        /\ errorLog # <<>>
        /\ \A e \in Engines : task[c][e] = NoTask

\* C6: in every interleaving of calls, a provider that fails with a
\* retryable error on every attempt of a call is invoked at most
\* 1 + maxRetries times by that call, and its successive backoff delays in
\* that call never decrease and never exceed the cap.
C6_RetryBound ==
    \A c \in Calls, e \in Engines :
        ( /\ Rejected(c, e)
          /\ Len(task[c][e].notes) = task[c][e].invoked
          /\ \A i \in 1..Len(task[c][e].notes) :
                /\ task[c][e].notes[i].kind = "error"
                /\ task[c][e].notes[i].errorInfo.type \in retryableErrors )
        => /\ task[c][e].invoked <= 1 + maxRetries
           /\ NonDecreasing(task[c][e].delays)
           /\ \A i \in 1..Len(task[c][e].delays) :
                 task[c][e].delays[i] <= maxRetryDelay

\* C7: per call and provider one notification, carrying the terminal
\* outcome; none for an attempt that is going to be retried.
C7_NotifiedOnce ==
    \A c \in Calls, e \in Engines :
        LET notes == task[c][e].notes
        IN  /\ Len(notes) <= 1
            /\ task[c][e].pc = "settled" => Len(notes) = 1
            /\ Len(notes) = 1 =>
                 /\ task[c][e].pc = "settled"
                 /\ IF notes[1].kind = "results"
                    THEN /\ task[c][e].settled.status = "fulfilled"
                         /\ task[c][e].settled.value = notes[1].results
                    ELSE /\ task[c][e].settled.status = "rejected"
                         /\ task[c][e].settled.reason = notes[1].errorInfo

\* C8: when a call has returned, every provider of the call has reached
\* its terminal outcome: none is searching or waiting for a retry.
C8_ReturnsAfterAllSettled ==
    \A c \in Calls : Returned(c) =>
        \A e \in Engines : task[c][e].pc = "settled"

\* a call returned one of whose providers had failed and been retried
\* while another had long settled
C8_Witness ==
    \E c \in Calls : Returned(c)
        /\ \E a \in Engines, b \in Engines :
              /\ Len(task[c][a].delays) >= 2
              /\ task[c][b].delays = <<>>

\* C9: a provider served from the cache is not searched, and its slot is
\* 'success' with the cached payload as data.
C9_CacheHitData ==
    \A c \in Calls, e \in Engines :
        ( /\ Returned(c)
          /\ Fulfilled(c, e)
          /\ task[c][e].invoked = 0 )
        => /\ MapHas(call[c].result.engines, e)
           /\ SlotOf(c, e).status = "success"
           /\ SlotOf(c, e).data = task[c][e].notes[1].results

\* C10: the cache never holds more than maxSize entries.
C10_CapacityBound == Len(cache) <= maxSize

\* the entries of the cache that have expired at the current clock value
Expired(entry) == now > entry.expiresAt

\* C11: at capacity, set of a further key removes exactly one entry, one
\* with the oldest lastAccessed, and leaves every other entry as it was.
C11_EvictsOldest ==
    \A k \in CacheKeys :
        (~MapHas(cache, k) /\ Len(cache) = maxSize)
        => LET after == cacheSet(cache, k, payloadOf(k, 1), 0, now, maxSize)
           IN  /\ Len(after) = maxSize
               /\ MapHas(after, k)
               /\ \E i \in 1..Len(cache) :
                     /\ \A j \in 1..Len(cache) :
                           cache[i].lastAccessed <= cache[j].lastAccessed
                     /\ ~MapHas(after, cache[i].key)
                     /\ \A j \in 1..Len(cache) :
                           j # i => /\ MapHas(after, cache[j].key)
                                    /\ MapGet(after, cache[j].key) = cache[j]

\* C12: an entry that set has just written (at the current clock value,
\* with the default TTL or an override) is returned by get, and get of an
\* entry whose expiresAt has passed is a miss.
C12_SetThenGet ==
    \A i \in 1..Len(cache) :
        LET got == cacheGet(cache, cache[i].key, now)
        IN  /\ (cache[i].createdAt = now /\ cache[i].lastAccessed = now)
                => got.value = cache[i].data
            /\ Expired(cache[i]) => got.value = Null

\* C13: get and has of an expired entry report a miss and remove the
\* entry, so that totalEntries drops by one; no entry that has not expired
\* is removed by get or has.
C13_ExpiredRemovedOnRead ==
    \A k \in CacheKeys :
        LET g == cacheGet(cache, k, now)
            h == cacheHas(cache, k, now)
        IN  /\ (MapHas(cache, k) /\ Expired(MapGet(cache, k)))
                => /\ g.value = Null
                   /\ h.value = FALSE
                   /\ ~MapHas(g.cache, k)
                   /\ ~MapHas(h.cache, k)
                   /\ totalEntries(g.cache) = totalEntries(cache) - 1
                   /\ totalEntries(h.cache) = totalEntries(cache) - 1
            /\ \A i \in 1..Len(cache) :
                  ~Expired(cache[i])
                  => /\ MapHas(g.cache, cache[i].key)
                     /\ MapHas(h.cache, cache[i].key)
                     /\ MapGet(h.cache, cache[i].key) = cache[i]
                     /\ MapGet(g.cache, cache[i].key).data = cache[i].data

\* the cache holds an entry that outlived a proper lifetime next to one
\* that is still valid
C13_Witness ==
    \E i \in 1..Len(cache), j \in 1..Len(cache) :
        /\ Expired(cache[i])
        /\ cache[i].expiresAt >= cache[i].createdAt
        /\ ~Expired(cache[j])

\* the error record of the last notification of a provider task
LastError(tk) == tk.notes[Len(tk.notes)].errorInfo

\* a step in which call c's provider e failed
FailedStep(c, e) ==
    /\ Len(task'[c][e].notes) = Len(task[c][e].notes) + 1
    /\ task'[c][e].notes[Len(task'[c][e].notes)].kind = "error"

\* C14: a failure is retried only when its kind is network, timeout or
\* api.  A failure of another kind settles the provider in the same step,
\* schedules no retry and records none; when it is the first failure of
\* the call, the search was invoked at most once.
C14_Step ==
    /\ \A e \in Engines, type \in ErrorTypes \ retryableErrors :
          ~shouldRetry(retryAttempts, e, type)
    /\ \A c \in Calls, e \in Engines :
          FailedStep(c, e) =>
            IF LastError(task'[c][e]).type \in retryableErrors
            THEN task'[c][e].pc = "delay" =>
                    /\ LastError(task'[c][e]).shouldRetry
                    /\ retryAttempts'[e] = retryAttempts[e] + 1
            ELSE /\ ~LastError(task'[c][e]).shouldRetry
                 /\ task'[c][e].pc = "settled"
                 /\ task'[c][e].settled.status = "rejected"
                 /\ task'[c][e].settled.reason = LastError(task'[c][e])
                 /\ task'[c][e].delays = task[c][e].delays
                 /\ task'[c][e].invoked = task[c][e].invoked
                 /\ retryAttempts'[e] = retryAttempts[e]
                 /\ Len(task'[c][e].notes) = 1
                      => /\ task'[c][e].invoked <= 1
                         /\ task'[c][e].delays = <<>>

LastLogged(log) == log[Len(log)]

\* the kind the taxonomy gives a raw error: the first test it matches, in
\* the order timeout, unavailable (the code's cors), network, api,
\* parsing (a response that could not be parsed), general
ExpectedKind(error) ==
    IF error.name = "AbortError" \/ includes(error.message, "timeout")
    THEN "timeout"
    ELSE IF includes(error.message, "CORS") \/ error.name = "TypeError"
    THEN "cors"
    ELSE IF includes(error.message, "Failed to fetch")
            \/ includes(error.message, "Network")
    THEN "network"
    ELSE IF error.status # 0
    THEN "api"
    ELSE IF error.name = "SyntaxError"
    THEN "parsing"
    ELSE "general"

\* C15: handleEngineError gives every raw error the kind of the first test
\* it matches in the order timeout, unavailable, network, api, parsing,
\* general.
C15_ClassificationOrder ==
    (raised # Null /\ errorLog # <<>>)
    => LastLogged(errorLog).type = ExpectedKind(raised)

\* the delays the backoff gives for the counters 0, 1, 2, ...
ExpectedDelay(attemptCount) ==
    LET table == <<1000, 2000, 4000, 8000, 10000, 10000>>
    IN  IF attemptCount < Len(table) THEN table[attemptCount + 1] ELSE 10000

\* C16: the backoff delay for a counter value n is min(1000 * 2^n, 10000):
\* 1000, 2000, 4000, 8000, 10000, 10000 for n = 0..5; and the delay of an
\* error record marked for retry is the one of the counter before the
\* retry is recorded.
C16_Step ==
    /\ \A e \in Engines :
          /\ getRetryDelay(retryAttempts, e) = ExpectedDelay(retryAttempts[e])
          /\ getRetryDelay(retryAttempts', e) = ExpectedDelay(retryAttempts'[e])
    /\ Len(errorLog') > Len(errorLog)
        => LET errorInfo == LastLogged(errorLog')
           IN  errorInfo.shouldRetry
               => errorInfo.retryDelay
                    = ExpectedDelay(retryAttempts[errorInfo.engine])

C16_BackoffDelay == [][C16_Step]_vars

\* a counter stands at 5 and the last record was marked for retry with
\* the delay of counter 2
C16_Witness ==
    /\ \E e \in Engines : retryAttempts[e] = 5
    /\ errorLog # <<>>
    /\ LastLogged(errorLog).shouldRetry
    /\ LastLogged(errorLog).retryDelay = 4000

\* C17: when the search of a provider is aborted by its deadline on the
\* first attempt of a call, the error record has kind timeout, is marked
\* for retry and carries the first backoff delay of 1000 ms; no other
\* provider of the call is affected.
C17_Step ==
    \A c \in Calls, e \in Engines :
        ( /\ FailedStep(c, e)
          /\ Len(task'[c][e].notes) = 1
          /\ task'[c][e].invoked = 1
          /\ LastError(task'[c][e]).message = AbortError.message )
        => /\ LastError(task'[c][e]).type = "timeout"
           /\ LastError(task'[c][e]).shouldRetry
           /\ LastError(task'[c][e]).retryDelay = baseRetryDelay
           /\ \A f \in Engines \ {e} : task'[c][f] = task[c][f]

C17_FirstTimeout == [][C17_Step]_vars

\* C18: the retry counter of every provider is zero when a searchAll
\* call starts resolving its providers.
C18_Step ==
    \A c \in Calls :
        (call[c].pc = "idle" /\ call'[c].pc \in {"running", "returned"})
        => \A e \in Engines : retryAttempts[e] = 0

C18_FreshCounter == [][C18_Step]_vars

\* C19: whatever overlapping calls do, a call whose provider fails with a
\* retryable error on every attempt gets exactly maxRetries retries for
\* it, no fewer and no more.
C19_RetriesPerCall ==
    \A c \in Calls, e \in Engines :
        ( /\ Rejected(c, e)
          /\ Len(task[c][e].notes) = task[c][e].invoked
          /\ \A i \in 1..Len(task[c][e].notes) :
                /\ task[c][e].notes[i].kind = "error"
                /\ task[c][e].notes[i].errorInfo.type \in retryableErrors )
        => Len(task[c][e].delays) = maxRetries

\* C20: when checkRateLimit or isAvailable returns false, the search is
\* not invoked for that attempt, the attempt ends as a failure of kind
\* unavailable that is not retried, and the retry counter stays as it was.
C20_Step ==
    \A c \in Calls, e \in Engines :
        ( /\ FailedStep(c, e)
          /\ LastError(task'[c][e]).message
                \in {RateLimitError.message, UnavailableError.message} )
        => /\ task'[c][e].invoked = task[c][e].invoked
           /\ task'[c][e].pc = "settled"
           /\ task'[c][e].settled.status = "rejected"
           /\ ~LastError(task'[c][e]).shouldRetry
           /\ retryAttempts'[e] = retryAttempts[e]
           /\ LastError(task'[c][e]).type \in {"unavailable", "cors"}

C20_GateFailure == [][C20_Step]_vars

\* C21: the error log never holds more than maxLogSize (100) records;
\* logging into a full log drops exactly the oldest record, and in every
\* case the records kept stay in their order with the new record last.
C21_LogBounded ==
    /\ Len(errorLog) <= maxLogSize
    /\ \A errorInfo \in LogRecords :
          LET after == logError(errorLog, errorInfo)
          IN  /\ Len(after) <= maxLogSize
              /\ after[Len(after)] = errorInfo
              /\ IF Len(errorLog) = maxLogSize
                 THEN after = Tail(errorLog) \o <<errorInfo>>
                 ELSE after = errorLog \o <<errorInfo>>

\* the log is full and the one record that differs from the others has
\* moved to the front, where the next record logged drops it
C21_Witness ==
    /\ Len(errorLog) = maxLogSize
    /\ errorLog[1] # CommonRecord
    /\ errorLog[maxLogSize] = CommonRecord

\* C22: getStats leaves the cache as it was (no entry added, removed or
\* changed, expired entries included), counts every entry as either valid
\* or expired, and does not change what the next set at capacity evicts.
C22_StatsReadOnly ==
    LET stats == getStats(cache, now, maxSize)
    IN  /\ stats.cache = cache
        /\ stats.value.totalEntries = Len(cache)
        /\ stats.value.validEntries + stats.value.expiredEntries = Len(cache)
        /\ \A k \in CacheKeys :
              cacheSet(stats.cache, k, payloadOf(k, 1), 0, now, maxSize)
                = cacheSet(cache, k, payloadOf(k, 1), 0, now, maxSize)

\* a full cache of two entries last accessed at different times, one of
\* them expired, at a time when an eviction would take the older one
C22_Witness ==
    /\ Len(cache) = maxSize
    /\ getStats(cache, now, maxSize).value.expiredEntries = 1
    /\ getStats(cache, now, maxSize).value.validEntries = 1
    /\ cache[1].lastAccessed # cache[2].lastAccessed
    /\ \E i \in 1..Len(cache) : cache[i].lastAccessed < now

\* the clock values at which a snapshot taken now is imported
ImportTimes == {now, now + 1, now + defaultTTL + 1}

\* C23: export returns exactly the entries that have not expired, in
\* their order; import of a snapshot into an empty cache restores exactly
\* the snapshot's entries that have not expired at import time, with the
\* same key, payload, createdAt and expiresAt, and skips the others; so
\* import of an export at once reproduces the valid contents.  Import into
\* the cache as it is adds or replaces the snapshot's valid entries and
\* nothing else.
C23_ExportImport ==
    LET snapshot == export(cache, now)
        valid == SelectSeq(cache, LAMBDA entry : ~Expired(entry))
    IN  /\ Len(snapshot) = Len(valid)
        /\ \A i \in 1..Len(valid) : snapshot[i] = exported(valid[i])
        /\ \A t \in ImportTimes :
              LET restored == importEach(<<>>, snapshot, 1, t)
                  kept == SelectSeq(snapshot,
                                    LAMBDA entry : t <= entry.expiresAt)
              IN  /\ Len(restored) = Len(kept)
                  /\ \A i \in 1..Len(kept) :
                        exported(restored[i]) = kept[i]
        /\ export(importEach(<<>>, snapshot, 1, now), now) = snapshot
        /\ \A s \in Snapshots :
              LET after == importEach(cache, s, 1, now)
              IN  \A k \in CacheKeys :
                    IF \E i \in 1..Len(s) :
                          s[i].key = k /\ now <= s[i].expiresAt
                    THEN /\ MapHas(after, k)
                         /\ \E i \in 1..Len(s) :
                               exported(MapGet(after, k)) = s[i]
                    ELSE /\ MapHas(after, k) = MapHas(cache, k)
                         /\ MapHas(cache, k)
                               => MapGet(after, k) = MapGet(cache, k)

\* the cache holds an expired entry, which export leaves out, and a valid
\* one that will have expired when the snapshot is imported later
C23_Witness ==
    /\ \E i \in 1..Len(cache) : Expired(cache[i])
    /\ Len(export(cache, now)) = 1
    /\ importEach(<<>>, export(cache, now), 1, now + defaultTTL + 1) = <<>>
    /\ Len(importEach(<<>>, export(cache, now), 1, now + 1)) = 1

\* what a sweep at clock value t must make of the cache: every entry with
\* expiresAt before t is gone, every other entry is there as it was, and
\* the entries kept are in the order they had
SweptAt(t) ==
    LET swept == cleanup(cache, t)
    IN  /\ \A i \in 1..Len(cache) :
              IF t > cache[i].expiresAt
              THEN ~MapHas(swept, cache[i].key)
              ELSE /\ MapHas(swept, cache[i].key)
                   /\ MapGet(swept, cache[i].key) = cache[i]
        /\ \A i \in 1..Len(swept) : MapHas(cache, swept[i].key)
        /\ \A i \in 1..Len(swept), j \in 1..Len(swept) :
              i < j => IndexOfKey(cache, swept[i].key, 1)
                         < IndexOfKey(cache, swept[j].key, 1)

C25_EntryInvariant ==
    \A i \in 1..Len(cache) :
        /\ cache[i].lastAccessed >= cache[i].createdAt
        /\ cache[i].expiresAt > cache[i].createdAt

\* C26: the user message of an error record depends on the record's kind
\* and the provider only: a raw error that differs from the one handled
\* in its message text alone and is classified to the same kind gets the
\* same user message.
C26_MessageByKind ==
    (raised # Null /\ errorLog # <<>>)
    => \A text \in RawMessages :
          LET other == [raised EXCEPT !.message = text]
              logged == LastLogged(errorLog)
          IN  classify(other) = logged.type
              => handleEngineError(other, logged.engine,
                                   retryAttempts).userMessage
                   = logged.userMessage

\* C27: the step that starts a call starts the first attempt of every
\* provider: each has looked up the cache and, on a miss with the gates
\* open, has its search invoked, before any response of the call is
\* handled; and no provider of a call is still to be started once another
\* has been.
C27_Step ==
    /\ \A c \in Calls, e \in Engines :
          task'[c][e].pc = "none"
            => \A f \in Engines : task'[c][f].pc = "none"
    /\ \A c \in Calls :
          (call[c].pc = "idle" /\ call'[c].pc \in {"running", "returned"})
          => \A e \in Engines :
                /\ task[c][e].pc = "none"
                /\ task'[c][e].pc \in {"searching", "settled", "delay"}
                /\ task'[c][e].pc = "searching"
                     => /\ task'[c][e].invoked = 1
                        /\ task'[c][e].notes = <<>>
                /\ task'[c][e].pc # "searching"
                     => /\ task'[c][e].invoked = 0
                        /\ Len(task'[c][e].notes) = 1
                /\ (MapHas(cache, generateCacheKey(e, call'[c].query,
                                                   call'[c].language))
                    /\ ~Expired(MapGet(cache,
                                        generateCacheKey(e, call'[c].query,
                                                         call'[c].language))))
                     => /\ task'[c][e].pc = "settled"
                        /\ task'[c][e].settled.status = "fulfilled"

C27_FanOut == [][C27_Step]_vars

\* the searches of all providers of a call are in flight together while
\* another call has already returned
C27_Witness ==
    \E c \in Calls, d \in Calls :
        /\ call[c].pc = "running"
        /\ \A e \in Engines :
              task[c][e].pc = "searching" /\ task[c][e].invoked = 1
        /\ Returned(d)

\* the cache key of provider e in call c, as of the end of the step
KeyOf(c, e) == generateCacheKey(e, call'[c].query, call'[c].language)

\* what set stores, as opposed to what a read updates
Stored(entry) == [entry EXCEPT !.lastAccessed = 0]

\* a step in which the search of call c's provider e succeeded
SucceededStep(c, e) ==
    /\ task[c][e].pc = "searching"
    /\ task'[c][e].pc = "settled"
    /\ task'[c][e].settled.status = "fulfilled"

\* an entry is stored under a key only in the step in which a search for
\* that key succeeded, and it holds the result of that search
WrittenBySuccess ==
    \A i \in 1..Len(cache') :
        LET k == cache'[i].key
        IN  (~MapHas(cache, k) \/ Stored(MapGet(cache, k)) # Stored(cache'[i]))
            => \E c \in Calls, e \in Engines :
                  /\ SucceededStep(c, e)
                  /\ k = KeyOf(c, e)
                  /\ cache'[i].data = task'[c][e].settled.value

\* C28 as stated: entries are stored only by a successful search, under
\* the key of its provider, language and normalized query; and the step of
\* a failed attempt leaves the entry under the attempt's key as it was:
\* not added, not replaced, not removed.
C28_Step ==
    /\ WrittenBySuccess
    /\ \A c \in Calls, e \in Engines :
          FailedStep(c, e)
          => /\ MapHas(cache', KeyOf(c, e)) = MapHas(cache, KeyOf(c, e))
             /\ MapHas(cache, KeyOf(c, e))
                   => MapGet(cache', KeyOf(c, e)) = MapGet(cache, KeyOf(c, e))

C28_FailureLeavesCache == [][C28_Step]_vars

\* C28 amended: entries are stored only by a successful search, under the
\* key of its provider, language and normalized query; the step of a
\* failed attempt adds and replaces no entry, and it removes none but the
\* entry under its own key when that entry has expired (the attempt's
\* cache lookup removes it).
C28_AmendedStep ==
    /\ WrittenBySuccess
    /\ \A c \in Calls, e \in Engines :
          FailedStep(c, e)
          => /\ MapHas(cache', KeyOf(c, e))
                   => /\ MapHas(cache, KeyOf(c, e))
                      /\ MapGet(cache', KeyOf(c, e))
                            = MapGet(cache, KeyOf(c, e))
             /\ (MapHas(cache, KeyOf(c, e)) /\ ~MapHas(cache', KeyOf(c, e)))
                   => now' > MapGet(cache, KeyOf(c, e)).expiresAt
             /\ \A i \in 1..Len(cache) :
                   ~(now' > cache[i].expiresAt) => MapHas(cache', cache[i].key)

C28_FailureKeepsValidEntries == [][C28_AmendedStep]_vars

\* a provider's result was cached by one call and had expired when the
\* provider failed in a later call, whose lookup removed the entry
C28_Witness ==
    \E c \in Calls, d \in Calls, e \in Engines :
        /\ Fulfilled(d, e)
        /\ task[d][e].invoked = 1
        /\ Rejected(c, e)
        /\ generateCacheKey(e, call[c].query, call[c].language)
             = generateCacheKey(e, call[d].query, call[d].language)
        /\ now > defaultTTL
        /\ ~MapHas(cache, generateCacheKey(e, call[c].query, call[c].language))

\* the items of the providers 1..i of call c that were served
RECURSIVE ItemsServed(_, _)
ItemsServed(c, i) ==
    IF i = 0 THEN 0
    ELSE ItemsServed(c, i - 1)
            + (IF Fulfilled(c, AdapterOrder[i])
               THEN task[c][AdapterOrder[i]].settled.value.results
               ELSE 0)

\* C29: in a returned result the resultCount of a provider that was
\* served is the number of items of its result, and summary.totalResults
\* is the sum of these numbers.
C29_ResultCounts ==
    \A c \in Calls : Returned(c) =>
        /\ \A e \in Engines :
              Fulfilled(c, e)
              => /\ MapHas(call[c].result.engines, e)
                 /\ SlotOf(c, e).status = "success"
                 /\ SlotOf(c, e).resultCount
                      = task[c][e].settled.value.results
        /\ call[c].result.summary.totalResults = ItemsServed(c, NumEngines)

\* C30: while a provider of a call waits for its retry, a sibling whose
\* search is in flight can complete at once, with a result or with a
\* failure: it is settled and notified, the result is cached or the failure
\* logged, the clock does not move and the waiting provider is left as it
\* is.
C30_SiblingsProceed ==
    \A c \in Calls, a \in Engines, b \in Engines :
        (task[c][a].pc = "delay" /\ task[c][b].pc = "searching")
        => /\ ENABLED ( /\ SearchResolves(c, b, 1)
                        /\ now' = now
                        /\ task'[c][a] = task[c][a]
                        /\ task'[c][b].pc = "settled"
                        /\ task'[c][b].settled.status = "fulfilled"
                        /\ Len(task'[c][b].notes) = Len(task[c][b].notes) + 1
                        /\ MapHas(cache', generateCacheKey(b, call[c].query,
                                                           call[c].language)) )
           /\ ENABLED ( /\ SearchRejects(c, b, HttpError)
                        /\ now' = now
                        /\ task'[c][a] = task[c][a]
                        /\ task'[c][b].pc = "settled"
                        /\ task'[c][b].settled.status = "rejected"
                        /\ Len(task'[c][b].notes) = Len(task[c][b].notes) + 1
                        /\ Len(errorLog') = Len(errorLog) + 1 )

\* a provider waits for its second retry while its sibling has been
\* served by a search whose result is in the cache, and the call is still
\* running
C30_Witness ==
    \E c \in Calls, a \in Engines, b \in Engines :
        /\ call[c].pc = "running"
        /\ task[c][a].pc = "delay"
        /\ Len(task[c][a].delays) = 2
        /\ now < task[c][a].wakeAt
        /\ Fulfilled(c, b)
        /\ task[c][b].invoked = 1
        /\ Len(task[c][b].notes) = 1
        /\ MapHas(cache, generateCacheKey(b, call[c].query, call[c].language))
        /\ MapGet(cache, generateCacheKey(b, call[c].query,
                                          call[c].language)).createdAt
             >= baseRetryDelay

\* C31: a get hit sets lastAccessed of the entry to the time of the read
\* and changes nothing else; has changes no entry it keeps; and the set of
\* a further key into a full cache never removes an entry that was
\* accessed later than another entry.
C31_ReadsCountForLRU ==
    /\ \A i \in 1..Len(cache) :
          ~Expired(cache[i])
          => LET got == cacheGet(cache, cache[i].key, now).cache
                 had == cacheHas(cache, cache[i].key, now).cache
             IN  /\ got = [cache EXCEPT ![i].lastAccessed = now]
                 /\ had = cache
    /\ \A k \in CacheKeys :
          \A i \in 1..Len(cache) :
              MapHas(cacheHas(cache, k, now).cache, cache[i].key)
              => MapGet(cacheHas(cache, k, now).cache, cache[i].key) = cache[i]
    /\ \A k \in CacheKeys :
          (~MapHas(cache, k) /\ Len(cache) >= maxSize)
          => LET after == cacheSet(cache, k, payloadOf(k, 1), 0, now, maxSize)
             IN  \A i \in 1..Len(cache), j \in 1..Len(cache) :
                    cache[i].lastAccessed > cache[j].lastAccessed
                    => MapHas(after, cache[i].key)

\* a full cache one of whose entries was read after both had been
\* written, at a time when the set of a further key evicts the other one
C31_Witness ==
    /\ Len(cache) = maxSize
    /\ \E i \in 1..Len(cache), j \in 1..Len(cache), k \in CacheKeys :
          /\ cache[i].lastAccessed > cache[i].createdAt
          /\ cache[i].lastAccessed > cache[j].lastAccessed
          /\ cache[i].createdAt <= cache[j].createdAt
          /\ ~MapHas(cache, k)
          /\ ~MapHas(cacheSet(cache, k, payloadOf(k, 1), 0, now, maxSize),
                     cache[j].key)

\* C32: in a full cache, set on a key that is present replaces the entry
\* of that key and nothing else: the key holds the new payload, every
\* other entry is there as it was, and the number of entries is the same.
C32_ReplaceInPlace ==
    \A i \in 1..Len(cache) :
        Len(cache) = maxSize
        => LET k == cache[i].key
               after == cacheSet(cache, k, payloadOf(k, 1), 0, now, maxSize)
           IN  /\ Len(after) = Len(cache)
               /\ MapHas(after, k)
               /\ MapGet(after, k).data = payloadOf(k, 1)
               /\ MapGet(after, k).createdAt = now
               /\ \A j \in 1..Len(cache) :
                     j # i => /\ MapHas(after, cache[j].key)
                              /\ MapGet(after, cache[j].key) = cache[j]

\* a step in which an attempt of call c's provider e starts: the call
\* starts, or the provider's retry timer fires
AttemptStarts(c, e) ==
    \/ call[c].pc = "idle" /\ call'[c].pc \in {"running", "returned"}
    \/ task[c][e].pc = "delay" /\ task'[c][e] # task[c][e]

\* C33: an attempt that finds a valid entry under its key settles the
\* provider as served with the cached payload and notifies it, without
\* asking checkRateLimit or isAvailable and without invoking the search,
\* whatever the gates would have answered.
C33_Step ==
    \A c \in Calls, e \in Engines :
        ( /\ AttemptStarts(c, e)
          /\ MapHas(cache, KeyOf(c, e))
          /\ ~(now' > MapGet(cache, KeyOf(c, e)).expiresAt) )
        => /\ task'[c][e].probes = task[c][e].probes
           /\ task'[c][e].invoked = task[c][e].invoked
           /\ task'[c][e].pc = "settled"
           /\ task'[c][e].settled.status = "fulfilled"
           /\ task'[c][e].settled.value = MapGet(cache, KeyOf(c, e)).data
           /\ Len(task'[c][e].notes) = Len(task[c][e].notes) + 1
           /\ task'[c][e].notes[Len(task'[c][e].notes)].kind = "results"
           /\ FailuresOf(errorLog', e) = FailuresOf(errorLog, e)

C33_CacheBeforeGates == [][C33_Step]_vars

\* in one call a provider was served from the cache without a probe of
\* its gates while its sibling was turned away by the rate limit
C33_Witness ==
    \E c \in Calls, e \in Engines, f \in Engines :
        /\ Returned(c)
        /\ Fulfilled(c, e)
        /\ task[c][e].invoked = 0
        /\ task[c][e].probes = 0
        /\ Rejected(c, f)
        /\ task[c][f].settled.reason.message = RateLimitError.message

\* a query without its blanks and in lower case
Letters(q) ==
    LET kept == SelectSeq(q, LAMBDA ch : ch \notin Whitespace)
    IN  [i \in 1..Len(kept) |-> IF kept[i] = "C" THEN "c" ELSE kept[i]]

\* call d has returned with results that are still valid at clock value t
StillCached(d, t) ==
    /\ Returned(d)
    /\ \A e \in Engines :
          /\ Fulfilled(d, e)
          /\ \E i \in 1..Len(cache) :
                /\ cache[i].data = task[d][e].settled.value
                /\ ~(t > cache[i].expiresAt)

\* C34: a call whose query differs from the query of an earlier call in
\* the same language only in letter case and surrounding blanks, while the
\* results of that call are still cached, is served from the cache for
\* every provider with the results of the earlier call and invokes no
\* search; a call in another language invokes every search; and every
\* entry holds a result of the provider and the language of its key.
C34_Step ==
    /\ \A i \in 1..Len(cache') :
          /\ cache'[i].data.engine = cache'[i].key[1]
          /\ cache'[i].data.language = cache'[i].key[2]
          /\ Letters(cache'[i].data.query) = cache'[i].key[3]
    /\ \A c \in Calls, d \in Calls :
          ( /\ call[c].pc = "idle"
            /\ call'[c].pc \in {"running", "returned"}
            /\ d # c
            /\ \A x \in Calls \ {c, d} : call[x].pc = "idle" )
          => IF /\ StillCached(d, now')
                /\ call[d].language = call'[c].language
                /\ Letters(call[d].query) = Letters(call'[c].query)
             THEN \A e \in Engines :
                     /\ task'[c][e].pc = "settled"
                     /\ task'[c][e].settled.status = "fulfilled"
                     /\ task'[c][e].settled.value = task[d][e].settled.value
                     /\ task'[c][e].invoked = 0
             ELSE call[d].language # call'[c].language
                  => \A e \in Engines :
                        /\ task'[c][e].pc = "searching"
                        /\ task'[c][e].invoked = 1

C34_KeyNormalized == [][C34_Step]_vars

\* a call was served from the cache with the results of a call whose
\* query was typed differently
C34_Witness ==
    \E c \in Calls, d \in Calls :
        /\ Returned(c)
        /\ Returned(d)
        /\ call[c].query # call[d].query
        /\ call[c].language = call[d].language
        /\ \A e \in Engines :
              /\ task[d][e].invoked = 1
              /\ task[c][e].invoked = 0
              /\ Fulfilled(c, e)
              /\ task[c][e].settled.value = task[d][e].settled.value

\* C35: the provider entries of a returned result are in the registration
\* order of the providers, whichever provider settled last and however
\* many retries each needed.
C35_RegistrationOrder ==
    \A c \in Calls : Returned(c) =>
        /\ Len(call[c].result.engines) = NumEngines
        /\ \A i \in 1..NumEngines :
              call[c].result.engines[i].key = AdapterOrder[i]

\* a call returned whose first provider was served only after a retry,
\* long after the providers behind it had settled
C35_Witness ==
    \E c \in Calls :
        /\ Returned(c)
        /\ Fulfilled(c, AdapterOrder[1])
        /\ task[c][AdapterOrder[1]].invoked >= 2
        /\ \A i \in 2..NumEngines :
              /\ task[c][AdapterOrder[i]].delays = <<>>
              /\ Fulfilled(c, AdapterOrder[i])
        /\ \E k \in 1..Len(cache), l \in 1..Len(cache) :
              /\ cache[k].key[1] = AdapterOrder[1]
              /\ cache[l].key[1] # AdapterOrder[1]
              /\ cache[k].createdAt > cache[l].createdAt

\* C36: a call that starts on an empty cache while another call for the
\* same query and language is running is not served by that call: each of
\* its providers is searched (or turned away by its gates).  Every
\* success writes its result under the provider's key, replacing what an
\* earlier success wrote, so that one entry per provider remains.
C36_Step ==
    /\ \A e \in Engines :
          Cardinality({i \in 1..Len(cache') : cache'[i].key[1] = e}) <= 1
    /\ \A c \in Calls, e \in Engines :
          SucceededStep(c, e)
          => /\ MapHas(cache', KeyOf(c, e))
             /\ MapGet(cache', KeyOf(c, e)).data = task'[c][e].settled.value
             /\ MapGet(cache', KeyOf(c, e)).createdAt = now'
             /\ Len(cache') = IF MapHas(cache, KeyOf(c, e))
                              THEN Len(cache) ELSE Len(cache) + 1
    /\ \A c \in Calls, d \in Calls :
          ( /\ c # d
            /\ call[c].pc = "idle"
            /\ call'[c].pc \in {"running", "returned"}
            /\ cache = <<>>
            /\ call[d].pc = "running"
            /\ call[d].language = call'[c].language
            /\ Letters(call[d].query) = Letters(call'[c].query) )
          => \A e \in Engines :
                IF task'[c][e].pc = "searching"
                THEN task'[c][e].invoked = 1
                ELSE /\ task'[c][e].pc = "settled"
                     /\ task'[c][e].settled.status = "rejected"
                     /\ task'[c][e].invoked = 0

C36_NoDeduplication == [][C36_Step]_vars

\* two calls for the same query have returned, each having searched
\* every provider itself within the lifetime of an entry, and the entry of
\* the second provider is the one written by the later of its two
\* successes
C36_Witness ==
    /\ now < defaultTTL
    /\ Len(cache) = NumEngines
    /\ \A c \in Calls, e \in Engines :
          /\ Returned(c)
          /\ Fulfilled(c, e)
          /\ task[c][e].invoked >= 1
    /\ \A c \in Calls :
          /\ task[c][AdapterOrder[2]].invoked = 1
          /\ task[c][AdapterOrder[2]].delays = <<>>
    /\ \E i \in 1..Len(cache) :
          /\ cache[i].key[1] = AdapterOrder[2]
          /\ cache[i].createdAt >= baseRetryDelay

\* the provider attempts that fail in the step
FailedNow == {p \in Calls \X Engines : FailedStep(p[1], p[2])}

\* C37: a step appends to the error log one record for each provider
\* attempt that fails in it, the record of that failure, whether the
\* attempt is retried or not and whether it failed in the search or at a
\* gate; a step in which no attempt fails (a cache hit, a success, a
\* search being started) leaves the log as it was.
C37_Step ==
    /\ Len(errorLog') = Len(errorLog) + Cardinality(FailedNow)
    /\ SubSeq(errorLog', 1, Len(errorLog)) = errorLog
    /\ \A p \in FailedNow :
          Cardinality({i \in (Len(errorLog) + 1)..Len(errorLog') :
                         errorLog'[i] = LastError(task'[p[1]][p[2]])}) = 1

C37_OneRecordPerFailure == [][C37_Step]_vars

\* the log holds the record of a gate failure and the records of two
\* attempts that were retried, while a provider has been served from the
\* cache and another by a search
C37_Witness ==
    /\ \E i \in 1..Len(errorLog) :
          errorLog[i].message = RateLimitError.message
    /\ Cardinality({i \in 1..Len(errorLog) : errorLog[i].shouldRetry}) >= 2
    /\ \E c \in Calls, e \in Engines :
          Fulfilled(c, e) /\ task[c][e].invoked = 0
    /\ \E c \in Calls, e \in Engines :
          Fulfilled(c, e) /\ task[c][e].invoked = 1

----------------------------------------------------------------------------
(* searchAll under fairness: every search that was invoked settles, which
   is the provider's doing, and every timer that was set fires, which is
   the event loop's.  No bound is put on the failures of
   the first adapter: the environment may fail every search of it.  The
   other adapters answer, the gates are open, and the calls search in
   different languages, so that none is served what another one cached. *)

\* adapter.search of call c, engine e settles, either way
Settles(c, e) ==
    \/ \E n \in 1..MaxResults : SearchResolves(c, e, n)
    \/ /\ e = AdapterOrder[1]
       /\ \E error \in ProviderErrors : SearchRejects(c, e, error)

\* the setTimeout of retrySearch for call c, engine e runs its callback
Fires(c, e) == RetryFires(c, e, "ok")

\* the language call c searches in
FairLanguage(c) == IF c = 1 THEN "ja" ELSE "en"

FairNext ==
    \/ \E c \in Calls :
          SearchAll(c, <<"c">>, FairLanguage(c), [e \in Engines |-> "ok"])
    \/ \E c \in Calls, e \in Engines : Settles(c, e)
    \/ \E c \in Calls, e \in Engines : Fires(c, e)

FairSpec ==
    /\ Init
    /\ [][FairNext]_vars
    /\ \A c \in Calls, e \in Engines :
          /\ []<>(task[c][e].pc # "searching")
          /\ WF_vars(Fires(c, e))

\* C38: a searchAll call with a valid query that is in progress eventually
\* returns, when every search that was invoked settles and every scheduled
\* delay fires, MaxCalls calls being made in all: the retries of a provider
\* come to an end.
C38_Terminates ==
    \A c \in Calls : (call[c].pc = "running") ~> Returned(c)

\* a call has returned after a provider of it used up its retries and was
\* reported as failed
C38_Witness ==
    \E c \in Calls, e \in Engines :
        /\ Returned(c)
        /\ Rejected(c, e)
        /\ Len(task[c][e].delays) = maxRetries

----------------------------------------------------------------------------
(* SearchManager.cleanup next to searches in progress *)

\* cleanup(), called while a search is active: cancelAllSearches, the
\* history emptied, clearErrorLog (log and retry counters), cache.destroy
ManagerCleanup ==
    /\ activeSearches # {}
    /\ activeSearches' = {}
    /\ searchHistory' = <<>>
    /\ errorLog' = <<>>
    /\ retryAttempts' = [e \in Engines |-> 0]
    /\ cache' = <<>>
    /\ UNCHANGED <<now, maxSize, raised, call, task>>

\* only the first adapter fails, and the log never holds more than
\* MaxCleanupFailures records
CleanupBudget(log) ==
    /\ Len(log) <= MaxCleanupFailures
    /\ \A i \in 1..Len(log) : log[i].engine = AdapterOrder[1]

CleanupNext ==
    \/ \E c \in Calls, input \in OverlapInputs :
          SearchAll(c, input[1], input[2], [e \in Engines |-> "ok"])
    \/ \E c \in Calls, e \in Engines, n \in 1..MaxResults :
          SearchResolves(c, e, n)
    \/ \E c \in Calls, e \in Engines, error \in ProviderErrors :
          SearchRejects(c, e, error) /\ CleanupBudget(errorLog')
    \/ \E c \in Calls, e \in Engines : RetryFires(c, e, "ok")
    \/ ManagerCleanup

CleanupSpec == Init /\ [][CleanupNext]_vars

\* the calls that return in the step
ReturnedNow == {c \in Calls : ~Returned(c) /\ call'[c].pc = "returned"}

\* C39 (records): the active searches are the calls in progress, one
\* record each, so that there is none when no call is in flight.
C39_ActiveAreRunning ==
    activeSearches = {c \in Calls : call[c].pc = "running"}

\* C39 (history): a step in which a call returns puts one entry, that of
\* the call, in front of the history and keeps the entries that were there
\* (up to maxHistorySize) behind it in their order; a step in which no call
\* returns leaves the history as it was.
C39_Step ==
    IF ReturnedNow = {}
    THEN searchHistory' = searchHistory
    ELSE /\ Cardinality(ReturnedNow) = 1
         /\ Len(searchHistory') =
               (IF Len(searchHistory) < maxHistorySize
                THEN Len(searchHistory) + 1 ELSE maxHistorySize)
         /\ \A c \in ReturnedNow :
               /\ searchHistory'[1].query = call'[c].query
               /\ searchHistory'[1].language = call'[c].language
               /\ searchHistory'[1].totalResults =
                     call'[c].result.summary.totalResults
         /\ \A i \in 2..Len(searchHistory') :
               searchHistory'[i] = searchHistory[i - 1]

\* C39: both parts, in every state and every step
C39_ActiveAndHistory == []C39_ActiveAreRunning /\ [][C39_Step]_vars

\* a call has returned after a provider of it failed and has left its entry
\* in the history, while the other one, made in another language, is in
\* progress and has the only record
C39_Witness ==
    \E c, d \in Calls :
        /\ Returned(c)
        /\ call[d].pc = "running"
        /\ activeSearches = {d}
        /\ \E e \in Engines : Rejected(c, e)
        /\ Len(searchHistory) = 1
        /\ searchHistory[1].language = call[c].language
        /\ call[d].language # call[c].language

\* call c was in flight when cleanup() ran: it is still in progress and its
\* record is gone from the active searches
Cancelled(c) == call[c].pc = "running" /\ c \notin activeSearches

\* C40: a step of a provider attempt of a call that was in flight when
\* cleanup() ran adds no entry to the cache, no record to the error log,
\* nothing to a retry counter and no entry to the history.
C40_Step ==
    \A c \in Calls :
        Cancelled(c) /\ task'[c] # task[c] =>
            /\ \A k \in MapKeys(cache') : k \in MapKeys(cache)
            /\ Len(errorLog') <= Len(errorLog)
            /\ \A e \in Engines : retryAttempts'[e] <= retryAttempts[e]
            /\ Len(searchHistory') <= Len(searchHistory)

C40_CleanupIsFinal == [][C40_Step]_vars

====
